---------------------------- MODULE Spec2Model ----------------------------
(***************************************************************************)
(* A model of the mark & sweep collector of src/src/gc.c.                  *)
(*                                                                         *)
(* Pointers are integers, 0 is NULL.  An Allocation (gc.c:42-48) is a     *)
(* record [ptr, size, tag, dtor]; its `next` field is its position in the *)
(* chain it is linked in.  The AllocationMap (gc.c:50-59) is the record   *)
(* `am`; am.allocs[i + 1] is the chain of bucket i, head first.           *)
(*                                                                         *)
(* The double-valued factors are fractions <<numerator, denominator>>.    *)
(* The model's factors are 1/5, 4/5 and 1/2 and its sizes are below 20,   *)
(* where the rounding of double arithmetic changes no comparison and      *)
(* no truncation.                                                          *)
(*                                                                         *)
(* A record is identified by its ptr: gc_allocation_map_put never links   *)
(* two records with one ptr.  A pointer to a record that has been         *)
(* released (gc_allocation_delete) is dangling.  Reading through it is    *)
(* undefined: the model takes the block's old bytes when the allocator    *)
(* was not entered between the release and the read, and any value when   *)
(* it was (gc_allocation_map_resize calls calloc, which may hand the      *)
(* block out again) or when the bytes are the ones free() itself writes.  *)
(* Bookkeeping-memory exhaustion (malloc failing in gc_allocation_new) is *)
(* not modelled; the client allocations of gc_mcalloc and realloc may     *)
(* fail at any time.                                                       *)
(***************************************************************************)
EXTENDS Integers, Sequences, FiniteSets

(***************************************************************************)
(* Bounds and inputs                                                       *)
(***************************************************************************)

\* Number of distinct blocks the system allocator can hand out.
NumRegions == 2

\* The addresses of those blocks (16-byte aligned).  Their hashes are
\* 14, 36, 58, 80, 102: under capacity 7 the first two sit in buckets 0 and
\* 1, under capacity 3 in buckets 2 and 0.
HeapPool == <<112, 288, 464, 640, 816>>

HeapAddrs == {HeapPool[k] : k \in 1..NumRegions}

\* Number of distinct pointers put into a map that is driven on its own.
NumKeys == 3

MapKeys == {HeapPool[k] : k \in 1..NumKeys}

\* The nesting of gc_mark_alloc calls the model follows before it cuts a
\* scan short; above the number of keys, so that no scan of gc.c is cut.
MaxMarkDepth == 5

NULL == 0

Ptrs == HeapAddrs \cup {NULL}

\* Finalizers: NULL (none) or the address of the one client function.
Dtors == {NULL, 1}

\* Byte sizes passed to gc_realloc, and (count, size) pairs passed to
\* gc_malloc_ext (count 0) and gc_calloc_ext.
Sizes == {8, 16}

AllocArgs == {<<0, 8>>, <<0, 16>>, <<2, 8>>}

(***************************************************************************)
(* Tags, gc.c:32-34                                                        *)
(***************************************************************************)
GC_TAG_NONE == 0

GC_TAG_ROOT == 1

GC_TAG_MARK == 2

\* tag & bit, for a one-bit mask
HasTag(tag, bit) == (tag \div bit) % 2 = 1

\* tag | bit
SetTag(tag, bit) == IF HasTag(tag, bit) THEN tag ELSE tag + bit

\* tag & ~bit
ClearTag(tag, bit) == IF HasTag(tag, bit) THEN tag - bit ELSE tag

(***************************************************************************)
(* Fractions standing for the doubles                                      *)
(***************************************************************************)
Frac(n, d) == <<n, d>>

FracPositive(f) == f[1] > 0

\* (double) a / (double) b > f      (gc.c:195-196)
RatioAbove(a, b, f) == a * f[2] > f[1] * b

\* (double) a / (double) b < f      (gc.c:241-242)
RatioBelow(a, b, f) == a * f[2] < f[1] * b

\* (size_t) or (int) of f * k, for k >= 0
FracTimesFloor(f, k) == (f[1] * k) \div f[2]

(***************************************************************************)
(* primes.h: next_prime(n) is the least prime >= n                         *)
(***************************************************************************)
is_prime(n) == n > 1 /\ \A d \in 2..(n - 1) : n % d # 0

next_prime(n) ==
    CHOOSE p \in n..(2 * n + 3) : is_prime(p) /\ \A q \in n..(p - 1) : ~is_prime(q)

(***************************************************************************)
(* The allocation map, gc.c:63-246                                         *)
(***************************************************************************)
gc_allocation_new(ptr, size, dtor) ==
    [ptr |-> ptr, size |-> size, tag |-> GC_TAG_NONE, dtor |-> dtor]

gc_allocation_map_new(min_capacity, capacity, sweep_factor, downsize_factor, upsize_factor) ==
    LET minc == next_prime(min_capacity)
        cap0 == next_prime(capacity)
        cap  == IF cap0 < minc THEN minc ELSE cap0
    IN  [capacity        |-> cap,
         min_capacity    |-> minc,
         downsize_factor |-> downsize_factor,
         upsize_factor   |-> upsize_factor,
         sweep_factor    |-> sweep_factor,
         sweep_limit     |-> FracTimesFloor(sweep_factor, cap),
         size            |-> 0,
         allocs          |-> [i \in 1..cap |-> <<>>]]

gc_hash(ptr) == ptr \div 8

\* The bucket of ptr, counted from 0 as in the code.
BucketOf(ptr, capacity) == gc_hash(ptr) % capacity

RECURSIVE Flatten(_, _)
\* The records of buckets i.. in the order the loops of the code visit them.
Flatten(allocs, i) ==
    IF i > Len(allocs) THEN <<>> ELSE allocs[i] \o Flatten(allocs, i + 1)

RECURSIVE RehomeAsNew(_, _, _)
\* Each record re-created by gc_allocation_new in its new chain: its tag is
\* lost.
RehomeAsNew(recs, resized, new_capacity) ==
    IF recs = <<>> THEN resized
    ELSE LET a  == Head(recs)
             ix == BucketOf(a.ptr, new_capacity) + 1
         IN  RehomeAsNew(Tail(recs),
                         [resized EXCEPT ![ix] = <<gc_allocation_new(a.ptr, a.size, a.dtor)>> \o @],
                         new_capacity)

RECURSIVE Rehome(_, _, _)
\* gc.c:141-150: each record in turn is pushed on the front of its new chain.
Rehome(recs, resized, new_capacity) ==
    IF recs = <<>> THEN resized
    ELSE LET a  == Head(recs)
             ix == BucketOf(a.ptr, new_capacity) + 1
         IN  Rehome(Tail(recs), [resized EXCEPT ![ix] = <<a>> \o @], new_capacity)

\* No early return: every requested capacity is taken.
ResizeAppliesAlways(am, new_capacity) == TRUE

\* Whether gc_allocation_map_resize goes past its early return (gc.c:132).
ResizeApplies(am, new_capacity) == ~(new_capacity <= am.min_capacity)

\* am->size + am->sweep_factor * (am->capacity - am->size), gc.c:154
\* (for size <= new_capacity: no configuration of the model resizes a map
\* that holds more records than the new capacity, where the size_t
\* subtraction wraps)
ResizedSweepLimit(am, new_capacity) ==
    am.size + FracTimesFloor(am.sweep_factor, new_capacity - am.size)

\* The chains copied bucket by bucket into the new array, none re-hashed.
ResizeKeepsBuckets(am, new_capacity) ==
    IF ~ResizeApplies(am, new_capacity) THEN am
    ELSE [am EXCEPT
            !.allocs = [i \in 1..new_capacity |->
                            IF i <= am.capacity THEN am.allocs[i] ELSE <<>>],
            !.capacity = new_capacity,
            !.sweep_limit = ResizedSweepLimit(am, new_capacity)]

gc_allocation_map_resize(am, new_capacity) ==
    IF ~ResizeApplies(am, new_capacity) THEN am
    ELSE [am EXCEPT
            !.allocs = Rehome(Flatten(am.allocs, 1),
                              [i \in 1..new_capacity |-> <<>>], new_capacity),
            !.capacity = new_capacity,
            !.sweep_limit = ResizedSweepLimit(am, new_capacity)]

\* Position of the record with this ptr in a chain, 0 when there is none.
PosIn(chain, ptr) ==
    IF \E k \in 1..Len(chain) : chain[k].ptr = ptr
    THEN CHOOSE k \in 1..Len(chain) :
            chain[k].ptr = ptr /\ \A j \in 1..(k - 1) : chain[j].ptr # ptr
    ELSE 0

\* gc.c:195-199
PutUpsizes(am) == RatioAbove(am.size, am.capacity, am.upsize_factor)

\* A put that leaves the record of a known ptr as it is.
PutKeepsExisting(am, ptr, size, dtor) ==
    LET ix  == BucketOf(ptr, am.capacity) + 1
        am1 == [am EXCEPT !.allocs[ix] = <<gc_allocation_new(ptr, size, dtor)>> \o @,
                          !.size = am.size + 1]
    IN  IF PosIn(am.allocs[ix], ptr) # 0 THEN am
        ELSE IF PutUpsizes(am1)
             THEN gc_allocation_map_resize(am1, next_prime(am1.capacity * 2))
             ELSE am1

\* A put without the upsert loop: the new record always goes to the front.
PutPrepends(am, ptr, size, dtor) ==
    LET ix  == BucketOf(ptr, am.capacity) + 1
        am1 == [am EXCEPT !.allocs[ix] = <<gc_allocation_new(ptr, size, dtor)>> \o @,
                          !.size = am.size + 1]
    IN  IF PutUpsizes(am1)
        THEN gc_allocation_map_resize(am1, next_prime(am1.capacity * 2))
        ELSE am1

gc_allocation_map_put(am, ptr, size, dtor) ==
    LET ix    == BucketOf(ptr, am.capacity) + 1
        chain == am.allocs[ix]
        alloc == gc_allocation_new(ptr, size, dtor)
        k     == PosIn(chain, ptr)
    IN  IF k # 0
        THEN [am EXCEPT !.allocs[ix] = [chain EXCEPT ![k] = alloc]]
        ELSE LET am1 == [am EXCEPT !.allocs[ix] = <<alloc>> \o chain,
                                   !.size = am.size + 1]
             IN  IF PutUpsizes(am1)
                 THEN gc_allocation_map_resize(am1, next_prime(am1.capacity * 2))
                 ELSE am1

\* gc_allocation_map_get(am, ptr) != NULL
HasAlloc(am, ptr) == PosIn(am.allocs[BucketOf(ptr, am.capacity) + 1], ptr) # 0

\* *gc_allocation_map_get(am, ptr), when it is not NULL
GetAlloc(am, ptr) ==
    LET chain == am.allocs[BucketOf(ptr, am.capacity) + 1]
    IN  chain[PosIn(chain, ptr)]

\* gc.c:241-245
RemoveDownsizes(am) == RatioBelow(am.size, am.capacity, am.downsize_factor)

\* The record unlinked without am->size--.
RemoveUnlinkedKeepsSize(am, ptr) ==
    LET ix == BucketOf(ptr, am.capacity) + 1
    IN  [am EXCEPT !.allocs[ix] = SelectSeq(am.allocs[ix], LAMBDA a : a.ptr # ptr)]

\* gc.c:223-240: every record of the chain with this ptr is unlinked and
\* released.  (cur->next, read at line 239 from the block released at line
\* 233 with no allocator call in between, is the old next.)
RemoveUnlinked(am, ptr) ==
    LET ix    == BucketOf(ptr, am.capacity) + 1
        chain == am.allocs[ix]
        kept  == SelectSeq(chain, LAMBDA a : a.ptr # ptr)
    IN  [am EXCEPT !.allocs[ix] = kept,
                   !.size = am.size - (Len(chain) - Len(kept))]

\* Whether this remove ends in a resize that allocates a new bucket array.
RemoveResizes(am, ptr) ==
    LET am1 == RemoveUnlinked(am, ptr)
    IN  RemoveDownsizes(am1) /\ ResizeApplies(am1, next_prime(am1.capacity \div 2))

gc_allocation_map_remove(am, ptr) ==
    LET am1 == RemoveUnlinked(am, ptr)
    IN  IF RemoveDownsizes(am1)
        THEN gc_allocation_map_resize(am1, next_prime(am1.capacity \div 2))
        ELSE am1

\* The ptrs of all records linked in the map.
Keys(am) == {Flatten(am.allocs, 1)[k].ptr : k \in 1..Len(Flatten(am.allocs, 1))}

\* The record with this ptr wherever it is linked (identity of the record).
RecordOf(am, ptr) ==
    LET recs == Flatten(am.allocs, 1)
    IN  recs[PosIn(recs, ptr)]

\* The ptr of the record after this one in its chain: its `next`, NULL at
\* the end.
NextOf(am, ptr) ==
    LET ix == CHOOSE i \in 1..am.capacity : PosIn(am.allocs[i], ptr) # 0
        chain == am.allocs[ix]
        k == PosIn(chain, ptr)
    IN  IF k < Len(chain) THEN chain[k + 1].ptr ELSE NULL

\* The record with this ptr, wherever it is linked, with its tag replaced.
WithTag(am, ptr, tag) ==
    LET ix == CHOOSE i \in 1..am.capacity : PosIn(am.allocs[i], ptr) # 0
        k == PosIn(am.allocs[ix], ptr)
    IN  [am EXCEPT !.allocs[ix][k].tag = tag]

(***************************************************************************)
(* Mark, gc.c:405-468.  `mem` is the memory the scan reads: mem[p] is the  *)
(* managed pointer found in the block at p (NULL when it holds none).     *)
(* `stack` is the set of managed pointers found between the top of the    *)
(* stack and bos.  A word that is no key of the map ends gc_mark_alloc at *)
(* its lookup, so only keys are enumerated.                                *)
(***************************************************************************)
RECURSIVE gc_mark_alloc(_, _, _)
gc_mark_alloc(am, mem, ptr) ==
    IF HasAlloc(am, ptr) /\ ~HasTag(GetAlloc(am, ptr).tag, GC_TAG_MARK)
    THEN LET alloc == GetAlloc(am, ptr)
             am1   == WithTag(am, ptr, SetTag(alloc.tag, GC_TAG_MARK))
         IN  IF alloc.size > 0 THEN gc_mark_alloc(am1, mem, mem[ptr]) ELSE am1
    ELSE am

RECURSIVE MarkEach(_, _, _)
\* gc_mark_alloc on each pointer of a sequence in turn.
MarkEach(am, mem, ptrs) ==
    IF ptrs = <<>> THEN am
    ELSE MarkEach(gc_mark_alloc(am, mem, Head(ptrs)), mem, Tail(ptrs))

\* gc.c:441-454
gc_mark_roots(am, mem) ==
    LET recs  == Flatten(am.allocs, 1)
        roots == SelectSeq(recs, LAMBDA a : HasTag(a.tag, GC_TAG_ROOT))
    IN  MarkEach(am, mem, [k \in 1..Len(roots) |-> roots[k].ptr])

RECURSIVE SeqOfSet(_)
\* The elements of a set of integers, ascending.
SeqOfSet(S) ==
    IF S = {} THEN <<>>
    ELSE LET m == CHOOSE x \in S : \A y \in S : x <= y
         IN  <<m>> \o SeqOfSet(S \ {m})

\* gc.c:424-439: the words of the stack from the lower to the higher address.
gc_mark_stack(am, mem, stack) == MarkEach(am, mem, SeqOfSet(stack))

\* gc.c:456-468
gc_mark(am, mem, stack) == gc_mark_stack(gc_mark_roots(am, mem), mem, stack)

\* The test of gc.c:408 passes on any record, marked or not.
NeedsMarkAlways(am, ptr) == HasAlloc(am, ptr)

\* gc.c:408: alloc && !(alloc->tag & GC_TAG_MARK)
NeedsMark(am, ptr) ==
    HasAlloc(am, ptr) /\ ~HasTag(GetAlloc(am, ptr).tag, GC_TAG_MARK)

RECURSIVE MarkScan(_, _, _, _)
\* gc_mark_alloc(gc, ptr) with its trace: st.am is the map, st.scans the
\* scans of a record's contents so far, in order.  depth is 1 for the call
\* gc_mark_stack or gc_mark_roots makes and one more for each enclosing scan;
\* found is the managed pointer the scan read in the block.
MarkScan(st, mem, ptr, depth) ==
    IF ~NeedsMark(st.am, ptr) THEN st
    ELSE IF depth > MaxMarkDepth
    THEN [st EXCEPT !.scans = Append(@, [k |-> "cut", p |-> ptr, depth |-> depth,
                                         found |-> NULL])]
    ELSE LET alloc == GetAlloc(st.am, ptr)
             st1   == [am    |-> WithTag(st.am, ptr, SetTag(alloc.tag, GC_TAG_MARK)),
                       scans |-> Append(st.scans,
                                        [k |-> "scan", p |-> ptr, depth |-> depth,
                                         found |-> IF alloc.size > 0 THEN mem[ptr]
                                                   ELSE NULL])]
         IN  IF alloc.size > 0 THEN MarkScan(st1, mem, mem[ptr], depth + 1) ELSE st1

RECURSIVE MarkScanEach(_, _, _)
\* MarkScan on each pointer of a sequence in turn.
MarkScanEach(st, mem, ptrs) ==
    IF ptrs = <<>> THEN st
    ELSE MarkScanEach(MarkScan(st, mem, Head(ptrs), 1), mem, Tail(ptrs))

\* gc_mark (gc.c:456-468) with its trace: the ROOT-tagged records in bucket
\* order, then the words of the stack.
MarkTrace(am, mem, stack) ==
    LET recs  == Flatten(am.allocs, 1)
        roots == SelectSeq(recs, LAMBDA a : HasTag(a.tag, GC_TAG_ROOT))
    IN  MarkScanEach([am |-> am, scans |-> <<>>], mem,
                     [k \in 1..Len(roots) |-> roots[k].ptr] \o SeqOfSet(stack))

RECURSIVE Closure(_, _, _, _)
\* The keys reachable from the set R through the unreleased blocks.
Closure(am, lv, mem, R) ==
    LET more == {mem[a] : a \in {b \in R : b \in lv /\ RecordOf(am, b).size > 0}}
        R1   == R \cup (more \cap Keys(am))
    IN  IF R1 = R THEN R ELSE Closure(am, lv, mem, R1)

\* The records a collection must keep: the ROOT-tagged ones, the ones a
\* stack word points to, and the ones reachable from those.
Reachable(am, lv, mem, stack) ==
    Closure(am, lv, mem,
            {p \in Keys(am) : HasTag(RecordOf(am, p).tag, GC_TAG_ROOT) \/ p \in stack})

(***************************************************************************)
(* State                                                                   *)
(***************************************************************************)
VARIABLES
    am,       \* gc->allocs, the AllocationMap
    paused,   \* gc->paused
    live,     \* the client blocks obtained from the system allocator and not released
    pc,       \* "idle": the client runs, no call in progress; "sweep": in the
              \* while loop of gc_sweep at record sw.chunk; "swept": gc_sweep
              \* is returning; "returned": a call has just returned ret;
              \* "stopped": after gc_stop; "aborted": the allocator ended
              \* the process
    frame,    \* the locals of the call that is running the collection
    sw,       \* the locals of gc_sweep: i, chunk, total
    reach0,   \* the keys reachable when the running collection started
    recs0,    \* the keys of the map when the running collection started
    swept,    \* the keys the running gc_sweep has released
    ret,      \* the call that has just returned: operation, arguments, result
    ev        \* the finalizer calls and releases of the last step, in order

vars == <<am, paused, live, pc, frame, sw, reach0, recs0, swept, ret, ev>>

NoFrame == [caller |-> "none", count |-> 0, size |-> 0, dtor |-> NULL, ptr |-> NULL]

NoSweep == [i |-> 0, chunk |-> NULL, total |-> 0]

NoRet == [op |-> "none", p |-> NULL, s |-> 0, d |-> NULL, q |-> NULL, err |-> "none"]

Ret(op, p, s, d, q, err) == [op |-> op, p |-> p, s |-> s, d |-> d, q |-> q, err |-> err]

\* The map after gc_allocation_map_delete: no bucket array, no record.
DeletedMap ==
    [capacity |-> 0, min_capacity |-> 0, downsize_factor |-> Frac(0, 1),
     upsize_factor |-> Frac(0, 1), sweep_factor |-> Frac(0, 1), sweep_limit |-> 0,
     size |-> 0, allocs |-> <<>>]

(***************************************************************************)
(* gc_start_ext, gc.c:368-386.  Init is the collector after it.            *)
(***************************************************************************)
gc_start_ext(initial_capacity, min_capacity, downsize_load_factor, upsize_load_factor, sweep_factor) ==
    LET downsize_limit == IF FracPositive(downsize_load_factor)
                          THEN downsize_load_factor ELSE Frac(1, 5)
        upsize_limit   == IF FracPositive(upsize_load_factor)
                          THEN upsize_load_factor ELSE Frac(4, 5)
        sweep          == IF FracPositive(sweep_factor) THEN sweep_factor ELSE Frac(1, 2)
        initial        == IF initial_capacity < min_capacity
                          THEN min_capacity ELSE initial_capacity
    IN  gc_allocation_map_new(min_capacity, initial, sweep, downsize_limit, upsize_limit)

\* The arguments of gc_start_ext the model starts from: capacity 7 over a
\* floor of 2 with the default factors (a sweep can shrink the table), and
\* capacity 3 with the floor at 3 (the second allocation passes sweep_limit).
Configs ==
    { <<7, 1, Frac(0, 1), Frac(0, 1), Frac(0, 1)>>,
      <<3, 3, Frac(1, 5), Frac(4, 5), Frac(1, 2)>> }

Init ==
    /\ \E c \in Configs : am = gc_start_ext(c[1], c[2], c[3], c[4], c[5])
    /\ paused = FALSE
    /\ live = {}
    /\ pc = "idle"
    /\ frame = NoFrame
    /\ sw = NoSweep
    /\ reach0 = {}
    /\ recs0 = {}
    /\ swept = {}
    /\ ret = NoRet
    /\ ev = <<>>

(***************************************************************************)
(* Events of a step                                                        *)
(***************************************************************************)
\* alloc->dtor(ptr), when the record has a finalizer
DtorEvents(a, lv) ==
    IF a.dtor # NULL
    THEN <<[k |-> "dtor", p |-> a.ptr, live |-> a.ptr \in lv]>>
    ELSE <<>>

\* free(ptr)
FreeEvents(ptr, lv) == <<[k |-> "free", p |-> ptr, live |-> ptr \in lv]>>

\* free() of a block that is already released is undefined: the allocator
\* ends the process (its double-free check) or returns.
FreeAborts(ptr, lv) == IF ptr \in lv THEN {FALSE} ELSE {FALSE, TRUE}

(***************************************************************************)
(* gc_run, gc.c:500-505: gc_mark, then gc_sweep up to its first record     *)
(***************************************************************************)
RECURSIVE Seek(_, _)
\* The for loop of gc_sweep (gc.c:474-475) from bucket i: the first bucket
\* at or after i, below the current capacity, with a chain.
Seek(m, i) ==
    IF i >= m.capacity THEN [i |-> i, chunk |-> NULL]
    ELSE IF m.allocs[i + 1] # <<>> THEN [i |-> i, chunk |-> m.allocs[i + 1][1].ptr]
    ELSE Seek(m, i + 1)

\* What the scan can read in the block a calloc of this call has just zeroed.
MemFits(fr, mem) ==
    (fr.caller = "alloc_limit" /\ fr.count # 0) => mem[fr.ptr] = NULL

\* The memories a scan can find.  With `linked`, each block holds any
\* managed pointer or none; without, no block holds one.  Every set of
\* records a linked scan marks is also marked by an unlinked scan whose
\* stack holds exactly those pointers, so both reach the same maps.
Mems(m, linked) ==
    IF linked THEN [Keys(m) -> Keys(m) \cup {NULL}] ELSE {[k \in Keys(m) |-> NULL]}

StartRun(am0, lv, fr, linked) ==
    \E mem \in Mems(am0, linked), stack \in SUBSET Keys(am0) :
        /\ MemFits(fr, mem)
        /\ LET am1 == gc_mark(am0, mem, stack)
               s   == Seek(am1, 0)
           IN  /\ am' = am1
               /\ sw' = [i |-> s.i, chunk |-> s.chunk, total |-> 0]
               /\ pc' = IF s.chunk = NULL THEN "swept" ELSE "sweep"
        /\ live' = lv
        /\ frame' = fr
        /\ reach0' = Reachable(am0, lv, mem, stack)
        /\ recs0' = Keys(am0)
        /\ swept' = {}
        /\ ret' = NoRet
        /\ ev' = <<>>

\* chunk->next read at gc.c:494 after gc_allocation_map_remove released the
\* record: its old next, unless the remove resized the map.
DanglingNext(am0, ptr) ==
    IF RemoveResizes(am0, ptr)
    THEN Keys(gc_allocation_map_remove(am0, ptr)) \cup {NULL}
    ELSE {NextOf(am0, ptr)}

\* total += 1, the line the code keeps as a comment (gc.c:484).
SweepAddsOne(a) == 1

\* total += chunk->size, gc.c:485
SweepAdds(a) == a.size

\* The step of the while loop at gc.c:477-495 on the record sw.chunk.
SweepStep ==
    /\ pc = "sweep"
    /\ LET c == sw.chunk
           a == RecordOf(am, c)
       IN  IF HasTag(a.tag, GC_TAG_MARK)
           THEN LET am1 == WithTag(am, c, ClearTag(a.tag, GC_TAG_MARK))
                    nxt == NextOf(am, c)
                    s   == IF nxt # NULL THEN [i |-> sw.i, chunk |-> nxt]
                           ELSE Seek(am1, sw.i + 1)
                IN  /\ am' = am1
                    /\ sw' = [sw EXCEPT !.i = s.i, !.chunk = s.chunk]
                    /\ pc' = IF s.chunk = NULL THEN "swept" ELSE "sweep"
                    /\ ev' = <<>>
                    /\ UNCHANGED <<live, swept>>
           ELSE \E nxt \in DanglingNext(am, c), abort \in FreeAborts(c, live) :
                LET am1 == gc_allocation_map_remove(am, c)
                    s   == IF nxt # NULL THEN [i |-> sw.i, chunk |-> nxt]
                           ELSE Seek(am1, sw.i + 1)
                IN  /\ ev' = DtorEvents(a, live) \o FreeEvents(c, live)
                    /\ live' = live \ {c}
                    /\ swept' = swept \cup {c}
                    /\ IF abort
                       THEN /\ pc' = "aborted"
                            /\ UNCHANGED <<am, sw>>
                       ELSE /\ am' = am1
                            /\ sw' = [i |-> s.i, chunk |-> s.chunk,
                                      total |-> sw.total + SweepAdds(a)]
                            /\ pc' = IF s.chunk = NULL THEN "swept" ELSE "sweep"
    /\ UNCHANGED <<paused, frame, reach0, recs0, ret>>

\* gc_run(gc) called by the client.
Run(linked) ==
    /\ pc = "idle"
    /\ StartRun(am, live, [NoFrame EXCEPT !.caller = "run"], linked)
    /\ UNCHANGED paused

\* The call returns r to the client.
Return(r) ==
    /\ pc' = "returned"
    /\ frame' = NoFrame
    /\ sw' = NoSweep
    /\ reach0' = {}
    /\ recs0' = {}
    /\ swept' = {}
    /\ ret' = r

RunReturn ==
    /\ pc = "swept"
    /\ frame.caller = "run"
    /\ Return(Ret("run", NULL, 0, NULL, sw.total, "none"))
    /\ ev' = <<>>
    /\ UNCHANGED <<am, paused, live>>

(***************************************************************************)
(* gc_allocate, gc.c:256-294 (gc_malloc, gc_malloc_ext, gc_calloc,         *)
(* gc_calloc_ext).  The branch of line 280, for a put that returned NULL,  *)
(* is never entered: gc_allocation_map_put returns the record it linked.   *)
(***************************************************************************)
\* count ? count * size : size, gc.c:262
AllocSize(count, size) == IF count # 0 THEN count * size ELSE size

\* The blocks gc_mcalloc or realloc can hand out; NULL is its failure, which
\* sets errno to ENOMEM.
Fresh(lv) == HeapAddrs \ lv

\* A collection also when size has only reached sweep_limit.
AllocNeedsSweepAtLimit(m, isPaused) == m.size >= m.sweep_limit

\* gc.c:275: the collection an allocation triggers once it is registered.
\* The code does not read gc->paused.
AllocNeedsSweep(m, isPaused) == m.size > m.sweep_limit

\* gc.c:264: the collection before the second attempt.  The code does not
\* read gc->paused.
AllocRetriesWithRun(isPaused) == TRUE

\* gc.c:269-279, from a block the system allocator returned.
Register(fr, ptr, linked) ==
    LET am1 == gc_allocation_map_put(am, ptr, AllocSize(fr.count, fr.size), fr.dtor)
        lv  == live \cup {ptr}
    IN  IF AllocNeedsSweep(am1, paused)
        THEN StartRun(am1, lv, [fr EXCEPT !.caller = "alloc_limit", !.ptr = ptr], linked)
        ELSE /\ am' = am1
             /\ live' = lv
             /\ Return(Ret("allocate", NULL, AllocSize(fr.count, fr.size), fr.dtor,
                         ptr, "none"))
             /\ ev' = <<>>

\* gc.c:293 with ptr == NULL
AllocFails(fr) ==
    /\ Return(Ret("allocate", NULL, AllocSize(fr.count, fr.size), fr.dtor, NULL, "ENOMEM"))
    /\ ev' = <<>>
    /\ UNCHANGED <<am, live>>

Allocate(linked) ==
    /\ pc = "idle"
    /\ \E arg \in AllocArgs, dtor \in Dtors, ptr \in Fresh(live) \cup {NULL} :
        LET fr == [NoFrame EXCEPT !.count = arg[1], !.size = arg[2], !.dtor = dtor]
        IN  IF ptr = NULL
            THEN IF AllocRetriesWithRun(paused)
                 THEN StartRun(am, live, [fr EXCEPT !.caller = "alloc_retry"], linked)
                 ELSE AllocFails(fr)
            ELSE Register(fr, ptr, linked)
    /\ UNCHANGED paused

\* gc.c:266-293: the second gc_mcalloc, after the collection of line 265.
AllocRetry(linked) ==
    /\ pc = "swept"
    /\ frame.caller = "alloc_retry"
    /\ \E ptr \in Fresh(live) \cup {NULL} :
        IF ptr = NULL THEN AllocFails(frame) ELSE Register(frame, ptr, linked)
    /\ UNCHANGED paused

\* alloc->ptr read at gc.c:279: the record's ptr, or, when the collection of
\* line 276 released the record, whatever its block holds by then.
AllocPtrRead(m, fr) == IF HasAlloc(m, fr.ptr) THEN {fr.ptr} ELSE Ptrs

\* gc.c:277-293, after the collection of line 276.
AllocLimitReturn ==
    /\ pc = "swept"
    /\ frame.caller = "alloc_limit"
    /\ \E q \in AllocPtrRead(am, frame) :
        Return(Ret("allocate", NULL, AllocSize(frame.count, frame.size), frame.dtor,
                 q, "none"))
    /\ ev' = <<>>
    /\ UNCHANGED <<am, paused, live>>

(***************************************************************************)
(* gc_realloc, gc.c:320-347                                                *)
(***************************************************************************)
\* What realloc(p, size) of the system can return: NULL, p itself, or a new
\* block.
ReallocResults(p, lv) == IF p = NULL THEN Fresh(lv) \cup {NULL}
                         ELSE Fresh(lv) \cup {NULL, p}

\* realloc() of a released block is undefined: the allocator ends the
\* process or goes on as for a block in use.
ReallocAborts(p, lv) == IF p = NULL \/ p \in lv THEN {FALSE} ELSE {FALSE, TRUE}

\* The old block given up even when realloc failed.
ReallocLiveDropsOld(p, q, lv) == (lv \ {p}) \cup (IF q = NULL THEN {} ELSE {q})

\* The system's blocks after realloc(p, size) returned q: on failure the
\* old block stays as it is.
ReallocLive(p, q, lv) == IF q = NULL THEN lv ELSE (lv \ {p}) \cup {q}

\* alloc->size = size, gc.c:340
WithSize(m, ptr, size) ==
    LET ix == BucketOf(ptr, m.capacity) + 1
        k  == PosIn(m.allocs[ix], ptr)
    IN  [m EXCEPT !.allocs[ix][k].size = size]

\* alloc->dtor read at gc.c:344 after line 343 released the record: its old
\* dtor, unless the remove resized the map.
DanglingDtor(m, p) ==
    IF RemoveResizes(m, p) THEN Dtors ELSE {GetAlloc(m, p).dtor}

\* The key gc.c:344 registers the moved block under.
MovedKey(p, q) == p

\* gc.c:322-327: a non-null pointer the map does not know is refused.
ReallocRejects(m, p) == p # NULL /\ ~HasAlloc(m, p)

\* gc.c:329-346, the map after realloc(p, size) returned q.
ReallocMaps(m, p, q, size) ==
    IF q = NULL THEN {m}
    ELSE IF p = NULL THEN {gc_allocation_map_put(m, q, size, NULL)}
    ELSE IF p = q THEN {WithSize(m, p, size)}
    ELSE {gc_allocation_map_put(gc_allocation_map_remove(m, p), MovedKey(p, q), size, d) :
            d \in DanglingDtor(m, p)}

Realloc ==
    /\ pc = "idle"
    /\ \E p \in Ptrs, size \in Sizes :
        IF ReallocRejects(am, p)
        THEN /\ Return(Ret("realloc", p, size, NULL, NULL, "EINVAL"))
             /\ UNCHANGED <<am, live>>
        ELSE \E q \in ReallocResults(p, live), abort \in ReallocAborts(p, live) :
                IF abort
                THEN /\ pc' = "aborted"
                     /\ UNCHANGED <<am, live, frame, sw, reach0, recs0, swept, ret>>
                ELSE /\ \E m \in ReallocMaps(am, p, q, size) : am' = m
                     /\ live' = ReallocLive(p, q, live)
                     /\ Return(Ret("realloc", p, size, NULL, q,
                                   IF q = NULL THEN "ENOMEM" ELSE "none"))
    /\ ev' = <<>>
    /\ UNCHANGED paused

(***************************************************************************)
(* gc_free, gc.c:349-361                                                   *)
(***************************************************************************)
\* The finalizer call and the release of gc.c:353-356, in order.
FreeSteps(a, lv) == DtorEvents(a, lv) \o FreeEvents(a.ptr, lv)

\* The record left in the map.
FreeKeepsRecord(m, ptr) == m

\* gc.c:357
FreeRemoves(m, ptr) == gc_allocation_map_remove(m, ptr)

Free ==
    /\ pc = "idle"
    /\ \E ptr \in Ptrs :
        IF HasAlloc(am, ptr)
        THEN \E abort \in FreeAborts(ptr, live) :
                /\ ev' = FreeSteps(GetAlloc(am, ptr), live)
                /\ live' = live \ {ptr}
                /\ IF abort
                   THEN /\ pc' = "aborted"
                        /\ UNCHANGED <<am, frame, sw, reach0, recs0, swept, ret>>
                   ELSE /\ am' = FreeRemoves(am, ptr)
                        /\ Return(Ret("free", ptr, 0, NULL, NULL, "none"))
        ELSE /\ Return(Ret("free", ptr, 0, NULL, NULL, "unknown"))
             /\ ev' = <<>>
             /\ UNCHANGED <<am, live>>
    /\ UNCHANGED paused

(***************************************************************************)
(* gc_stop, gc.c:388-393; gc_pause and gc_resume, gc.c:395-403             *)
(***************************************************************************)
Stop(linked) ==
    /\ pc = "idle"
    /\ StartRun(am, live, [NoFrame EXCEPT !.caller = "stop"], linked)
    /\ UNCHANGED paused

\* gc_allocation_map_delete, gc.c:104-123, after the collection of gc_stop.
StopReturn ==
    /\ pc = "swept"
    /\ frame.caller = "stop"
    /\ am' = DeletedMap
    /\ pc' = "stopped"
    /\ frame' = NoFrame
    /\ sw' = NoSweep
    /\ reach0' = {}
    /\ recs0' = {}
    /\ swept' = {}
    /\ ret' = Ret("stop", NULL, 0, NULL, NULL, "none")
    /\ ev' = <<>>
    /\ UNCHANGED <<paused, live>>

Pause ==
    /\ pc = "idle"
    /\ paused' = TRUE
    /\ Return(Ret("pause", NULL, 0, NULL, NULL, "none"))
    /\ ev' = <<>>
    /\ UNCHANGED <<am, live>>

Resume ==
    /\ pc = "idle"
    /\ paused' = FALSE
    /\ Return(Ret("resume", NULL, 0, NULL, NULL, "none"))
    /\ ev' = <<>>
    /\ UNCHANGED <<am, live>>

(***************************************************************************)
(* make_root of the specification (section 4.2): set the ROOT bit on the  *)
(* record for p; an unknown p is ignored.  gc.c holds no function that    *)
(* sets GC_TAG_ROOT.                                                       *)
(***************************************************************************)
gc_make_root(m, p) ==
    IF HasAlloc(m, p) THEN WithTag(m, p, SetTag(GetAlloc(m, p).tag, GC_TAG_ROOT)) ELSE m

MakeRoot ==
    /\ pc = "idle"
    /\ \E p \in HeapAddrs :
        /\ am' = gc_make_root(am, p)
        /\ Return(Ret("make_root", p, 0, NULL, NULL, "none"))
    /\ ev' = <<>>
    /\ UNCHANGED <<paused, live>>

\* The client takes the result of the call and goes on.
Continue ==
    /\ pc = "returned"
    /\ pc' = "idle"
    /\ ret' = NoRet
    /\ ev' = <<>>
    /\ UNCHANGED <<am, paused, live, frame, sw, reach0, recs0, swept>>

\* The collector with the roots of the specification, under every memory.
Next ==
    \/ Continue
    \/ Run(TRUE)
    \/ SweepStep
    \/ RunReturn
    \/ Allocate(TRUE)
    \/ AllocRetry(TRUE)
    \/ AllocLimitReturn
    \/ Realloc
    \/ Free
    \/ Stop(TRUE)
    \/ StopReturn
    \/ Pause
    \/ Resume
    \/ MakeRoot

Spec == Init /\ [][Next]_vars

\* gc_start_ext with sweep_factor 0.1 on capacity 7 over a floor of 2:
\* sweep_limit is 0, so that every allocation runs the collection of
\* gc.c:276, and a sweep can shrink the table.
LimitConfigs == { <<7, 1, Frac(1, 5), Frac(4, 5), Frac(1, 10)>> }

InitLimit ==
    /\ \E c \in LimitConfigs : am = gc_start_ext(c[1], c[2], c[3], c[4], c[5])
    /\ paused = FALSE
    /\ live = {}
    /\ pc = "idle"
    /\ frame = NoFrame
    /\ sw = NoSweep
    /\ reach0 = {}
    /\ recs0 = {}
    /\ swept = {}
    /\ ret = NoRet
    /\ ev = <<>>

SpecLimit == InitLimit /\ [][Next]_vars

\* The functions of gc.c alone (none of them sets GC_TAG_ROOT), under the
\* memories without links.
NextApi ==
    \/ Continue
    \/ Run(FALSE)
    \/ SweepStep
    \/ RunReturn
    \/ Allocate(FALSE)
    \/ AllocRetry(FALSE)
    \/ AllocLimitReturn
    \/ Realloc
    \/ Free
    \/ Stop(FALSE)
    \/ StopReturn
    \/ Pause
    \/ Resume

SpecApi == Init /\ [][NextApi]_vars

(***************************************************************************)
(* The allocation map on its own: any sequence of gc_allocation_map_put    *)
(* and gc_allocation_map_remove (the calls gc_allocate, gc_realloc,        *)
(* gc_free and gc_sweep make), from the map of any gc_start_ext.           *)
(***************************************************************************)
\* Arguments of gc_start_ext: capacity 2 at its floor (the second put
\* upsizes to 5); capacity 7 over a floor of 3 (next_prime(7 / 2) is the
\* floor itself); capacity 7 over a floor of 2 (a remove downsizes to 3);
\* upsize_factor 2; capacities 4 and 6, not prime, the floor above.
MapConfigs ==
    { <<2, 2, Frac(1, 5), Frac(4, 5), Frac(1, 2)>>,
      <<7, 3, Frac(0, 1), Frac(0, 1), Frac(0, 1)>>,
      <<7, 1, Frac(0, 1), Frac(0, 1), Frac(0, 1)>>,
      <<2, 2, Frac(1, 5), Frac(2, 1), Frac(1, 2)>>,
      <<4, 6, Frac(1, 5), Frac(4, 5), Frac(1, 2)>> }

InitMap ==
    /\ \E c \in MapConfigs : am = gc_start_ext(c[1], c[2], c[3], c[4], c[5])
    /\ paused = FALSE
    /\ live = {}
    /\ pc = "idle"
    /\ frame = NoFrame
    /\ sw = NoSweep
    /\ reach0 = {}
    /\ recs0 = {}
    /\ swept = {}
    /\ ret = NoRet
    /\ ev = <<>>

\* gc_allocation_map_put(am, ptr, size, dtor); it returns the record, whose
\* ptr is ptr.
MapPut ==
    /\ pc = "idle"
    /\ \E ptr \in MapKeys, size \in Sizes, dtor \in Dtors :
        /\ am' = gc_allocation_map_put(am, ptr, size, dtor)
        /\ ret' = Ret("put", ptr, size, dtor, ptr, "none")
    /\ UNCHANGED <<paused, live, pc, frame, sw, reach0, recs0, swept, ev>>

\* gc_allocation_map_remove(am, ptr)
MapRemove ==
    /\ pc = "idle"
    /\ \E ptr \in MapKeys :
        /\ am' = gc_allocation_map_remove(am, ptr)
        /\ ret' = Ret("remove", ptr, 0, NULL, NULL, "none")
    /\ UNCHANGED <<paused, live, pc, frame, sw, reach0, recs0, swept, ev>>

NextMap ==
    \/ MapPut
    \/ MapRemove

SpecMap == InitMap /\ [][NextMap]_vars

(***************************************************************************)
(* The allocation map with marked records: puts and removes between the   *)
(* gc_mark_alloc calls of a collection, on a map that upsizes (capacity 2) *)
(* and on one that downsizes (capacity 7 over a floor of 2).               *)
(***************************************************************************)
ResizeConfigs ==
    { <<2, 2, Frac(1, 5), Frac(4, 5), Frac(1, 2)>>,
      <<7, 1, Frac(0, 1), Frac(0, 1), Frac(0, 1)>> }

InitResize ==
    /\ \E c \in ResizeConfigs : am = gc_start_ext(c[1], c[2], c[3], c[4], c[5])
    /\ paused = FALSE
    /\ live = {}
    /\ pc = "idle"
    /\ frame = NoFrame
    /\ sw = NoSweep
    /\ reach0 = {}
    /\ recs0 = {}
    /\ swept = {}
    /\ ret = NoRet
    /\ ev = <<>>

\* gc_mark_alloc(gc, ptr) on a block that holds no managed pointer: the
\* record, when there is one, gets the MARK bit.
MapMark ==
    /\ pc = "idle"
    /\ \E ptr \in MapKeys :
        /\ am' = gc_mark_alloc(am, [k \in Keys(am) |-> NULL], ptr)
        /\ ret' = Ret("mark", ptr, 0, NULL, NULL, "none")
    /\ UNCHANGED <<paused, live, pc, frame, sw, reach0, recs0, swept, ev>>

NextResize ==
    \/ MapPut
    \/ MapRemove
    \/ MapMark

SpecResize == InitResize /\ [][NextResize]_vars

(***************************************************************************)
(* gc_mark on its own, on the map a sequence of gc_allocation_map_put has  *)
(* built, with the scans it makes in ev.                                   *)
(***************************************************************************)
RECURSIVE PutEach(_, _, _)
\* gc_allocation_map_put of each pointer of a sequence in turn.
PutEach(m, ptrs, size) ==
    IF ptrs = <<>> THEN m
    ELSE PutEach(gc_allocation_map_put(m, Head(ptrs), size, NULL), Tail(ptrs), size)

InitMark ==
    /\ \E c \in MapConfigs, S \in SUBSET MapKeys, size \in Sizes :
        am = PutEach(gc_start_ext(c[1], c[2], c[3], c[4], c[5]), SeqOfSet(S), size)
    /\ paused = FALSE
    /\ live = {}
    /\ pc = "idle"
    /\ frame = NoFrame
    /\ sw = NoSweep
    /\ reach0 = {}
    /\ recs0 = {}
    /\ swept = {}
    /\ ret = NoRet
    /\ ev = <<>>

\* gc_mark(gc) under any memory and any stack.
MarkRun ==
    /\ pc = "idle"
    /\ \E mem \in Mems(am, TRUE), stack \in SUBSET Keys(am) :
        /\ am' = gc_mark(am, mem, stack)
        /\ ev' = MarkTrace(am, mem, stack).scans
    /\ pc' = "returned"
    /\ ret' = Ret("gc_mark", NULL, 0, NULL, NULL, "none")
    /\ UNCHANGED <<paused, live, frame, sw, reach0, recs0, swept>>

NextMark == MarkRun

SpecMark == InitMark /\ [][NextMark]_vars

(***************************************************************************)
(* Properties                                                              *)
(***************************************************************************)
\* A collection is running for gc_allocate.
InAllocRun == pc \in {"sweep", "swept"} /\ frame.caller \in {"alloc_retry", "alloc_limit"}

\* The step is a whole call of `op` that returns.
Returns(op) == pc = "idle" /\ pc' = "returned" /\ ret'.op = op

\* No record of the map carries the MARK bit.
NoMarks(m) == \A p \in Keys(m) : ~HasTag(RecordOf(m, p).tag, GC_TAG_MARK)

\* C1: when a collection finishes, every record that was reachable from a
\* ROOT-tagged record or from the scanned stack when it started is still in
\* the map, and the sweep has neither finalized nor released its block.
C1_ReachableKept ==
    pc = "swept" => \A p \in reach0 : HasAlloc(am, p) /\ p \notin swept

\* C2: when gc_sweep returns, no record of the map has the MARK bit set.
C2_NoMarkAfterSweep == pc = "swept" => NoMarks(am)

\* C3: when gc_run returns, every record that was in the map when the
\* collection started and was not reachable is out of the map and its block
\* is released.
C3_UnreachableSwept ==
    pc = "swept" => \A p \in recs0 \ reach0 : ~HasAlloc(am, p) /\ p \notin live

\* C4: a finalizer is only ever invoked on a block that is not yet
\* released, and the release of that block is the next thing that happens.
C4_FinalizerBeforeRelease ==
    \A k \in 1..Len(ev) :
        ev[k].k = "dtor" =>
            /\ ev[k].live
            /\ k < Len(ev)
            /\ ev[k + 1].k = "free"
            /\ ev[k + 1].p = ev[k].p

\* C5: while gc->paused is true no collection runs on behalf of an allocate
\* call, neither for size > sweep_limit nor to retry a failed allocation.
C5_PausedNoAllocRun == ~(paused /\ InAllocRun)

\* C6: in an unpaused collector an allocate call that has registered its
\* pointer starts the collection of gc.c:276 exactly when the map's size
\* then exceeds sweep_limit, and returns from that collection only when the
\* sweep has ended; when the size does not exceed sweep_limit and the system
\* allocator did not fail, the call returns without a collection.
C6_SweepLimitTrigger ==
    [][ /\ ( /\ ~paused
             /\ pc = "idle" \/ (pc = "swept" /\ frame.caller = "alloc_retry")
             /\ pc' = "returned" /\ ret'.op = "allocate" /\ ret'.q # NULL )
           => ( /\ am'.size <= am'.sweep_limit
                /\ HasAlloc(am', ret'.q) )
        /\ ( /\ ~paused
             /\ ~(pc \in {"sweep", "swept"} /\ frame.caller = "alloc_limit")
             /\ pc' \in {"sweep", "swept"} /\ frame'.caller = "alloc_limit" )
           => ( /\ am'.size > am'.sweep_limit
                /\ HasAlloc(am', frame'.ptr) )
        /\ ( /\ frame.caller = "alloc_limit"
             /\ pc' = "returned" )
           => pc = "swept"
        /\ ( /\ ~paused
             /\ pc = "idle"
             /\ pc' \in {"sweep", "swept"} /\ frame'.caller = "alloc_retry" )
           => am' \in {gc_mark(am, [k \in Keys(am) |-> NULL], s) : s \in SUBSET Keys(am)}
      ]_vars

\* An unpaused allocate call has passed sweep_limit and its collection has
\* released a block.
C6_Witness ==
    /\ pc = "swept"
    /\ frame.caller = "alloc_limit"
    /\ ~paused
    /\ swept # {}
    /\ HasAlloc(am, frame.ptr)

\* C7: after every successful gc_realloc(p, s) returning q the map holds a
\* record for q whose size is s.
C7_ReallocSize ==
    (pc = "returned" /\ ret.op = "realloc" /\ ret.q # NULL)
        => (HasAlloc(am, ret.q) /\ GetAlloc(am, ret.q).size = ret.s)

\* C8: after a gc_realloc(p, s) that moved the block to q # p, the map has
\* no record for p and has a record for q that carries the finalizer the
\* record for p had before the call.
C8_MovedCarriesFinalizer ==
    [][ (Returns("realloc") /\ ret'.p # NULL /\ ret'.q # NULL /\ ret'.q # ret'.p)
            => ( /\ ~HasAlloc(am', ret'.p)
                 /\ HasAlloc(am', ret'.q)
                 /\ GetAlloc(am', ret'.q).dtor = GetAlloc(am, ret'.p).dtor )
      ]_vars

\* C9: gc_realloc of a non-null pointer without a record returns NULL with
\* EINVAL, and every gc_realloc that returns NULL leaves the map (records,
\* size, capacity, sweep_limit) and every client block as they were.
C9_ReallocFailureKeepsAll ==
    [][ Returns("realloc")
            => /\ (ret'.p # NULL /\ ~HasAlloc(am, ret'.p))
                    => (ret'.q = NULL /\ ret'.err = "EINVAL")
               /\ ret'.q = NULL => (am' = am /\ live' = live /\ ev' = <<>>)
      ]_vars

\* gc_realloc has refused a pointer the map does not know while the map
\* holds records.
C9_Witness ==
    /\ pc = "returned"
    /\ ret.op = "realloc"
    /\ ret.q = NULL
    /\ ret.err = "EINVAL"
    /\ ret.p # NULL
    /\ am.size > 0

\* C10: gc_free of a pointer without a record changes nothing; gc_free of a
\* pointer with a record invokes its finalizer (if any), releases its block
\* and leaves no record for it, so that a second gc_free of the same pointer
\* is a call on a pointer without a record.
C10_FreeUnknownNoop ==
    [][ Returns("free")
            => IF HasAlloc(am, ret'.p)
               THEN /\ ~HasAlloc(am', ret'.p)
                    /\ ret'.p \notin live'
                    /\ Len(ev') = IF GetAlloc(am, ret'.p).dtor # NULL THEN 2 ELSE 1
                    /\ ev'[Len(ev')].k = "free" /\ ev'[Len(ev')].p = ret'.p
                    /\ Len(ev') = 2 => (ev'[1].k = "dtor" /\ ev'[1].p = ret'.p)
               ELSE am' = am /\ live' = live /\ ev' = <<>>
      ]_vars

\* gc_free has ignored a pointer whose block is released and whose record
\* is gone, while the map holds other records.
C10_Witness ==
    /\ pc = "returned"
    /\ ret.op = "free"
    /\ ret.p # NULL
    /\ ret.p \notin live
    /\ ~HasAlloc(am, ret.p)
    /\ ev = <<>>
    /\ am.size > 0

\* C11: between calls, the pointers with a record in the map are exactly the
\* client blocks obtained through the collector and not yet released.
C11_RecordsMatchLive == pc \in {"idle", "returned"} => Keys(am) = live

\* C12: every record linked in bucket i has (ptr >> 3) mod capacity = i,
\* after every put and remove, resizing or not.
C12_BucketInvariant ==
    /\ Len(am.allocs) = am.capacity
    /\ \A i \in 1..am.capacity : \A k \in 1..Len(am.allocs[i]) :
            BucketOf(am.allocs[i][k].ptr, am.capacity) = i - 1

\* A put has upsized the map from capacity 2, where both records shared
\* bucket 0, to capacity 5, where they sit in two buckets.
C12_Witness ==
    /\ ret.op = "put"
    /\ am.capacity = 5
    /\ am.size = 2
    /\ \E i, j \in 1..am.capacity : i # j /\ am.allocs[i] # <<>> /\ am.allocs[j] # <<>>

\* C13: after every put and remove, size is the number of records linked in
\* the chains of all buckets.
C13_SizeCountsRecords == am.size = Len(Flatten(am.allocs, 1))

\* A remove has returned with the map downsized from capacity 7 to 3, one
\* record left and none for its pointer.
C13_Witness ==
    /\ ret.op = "remove"
    /\ ~HasAlloc(am, ret.p)
    /\ am.capacity = 3
    /\ am.size = 1

\* C14: the capacity of the map is a prime number and is at least the
\* map's min_capacity, whatever initial_capacity and min_capacity
\* gc_start_ext was given.
C14_CapacityPrime == is_prime(am.capacity) /\ am.capacity >= am.min_capacity

\* Started with capacities 4 and 6, the map has capacity and floor 7; a
\* remove has left the load under downsize_factor and the capacity at the
\* floor.
C14_Witness ==
    /\ ret.op = "remove"
    /\ am.min_capacity = 7
    /\ am.capacity = 7
    /\ RemoveDownsizes(am)

\* C15: the size of the map (its record count) is at most its capacity (its
\* bucket count), for every configuration gc_start_ext accepts.
C15_SizeWithinCapacity == am.size <= am.capacity

\* C16: right after put(p, s, d), get(p) is a record with size s and
\* finalizer d, whether p was known or not and whether the put upsized.
C16_PutGetRoundTrip ==
    [][ ret'.op = "put"
            => /\ HasAlloc(am', ret'.p)
               /\ GetAlloc(am', ret'.p).size = ret'.s
               /\ GetAlloc(am', ret'.p).dtor = ret'.d
      ]_vars

\* A put with a finalizer has returned in a map upsized to capacity 5, and
\* get finds its record.
C16_Witness ==
    /\ ret.op = "put"
    /\ ret.d # NULL
    /\ am.capacity = 5
    /\ am.size >= 2
    /\ HasAlloc(am, ret.p)
    /\ GetAlloc(am, ret.p).dtor = ret.d

\* C17: a put on a pointer that has a record replaces that record where it
\* is linked: size, capacity, the length of every chain and every other
\* record stay as they were; and the map never holds two records with one
\* ptr.
C17_UpsertInPlace ==
    [][ /\ (ret'.op = "put" /\ HasAlloc(am, ret'.p))
            => /\ am'.size = am.size
               /\ am'.capacity = am.capacity
               /\ \A i \in 1..am.capacity :
                    /\ Len(am'.allocs[i]) = Len(am.allocs[i])
                    /\ \A k \in 1..Len(am.allocs[i]) :
                        /\ am'.allocs[i][k].ptr = am.allocs[i][k].ptr
                        /\ am.allocs[i][k].ptr # ret'.p
                            => am'.allocs[i][k] = am.allocs[i][k]
        /\ Cardinality(Keys(am')) = Len(Flatten(am'.allocs, 1))
      ]_vars

\* A put has returned in a map that was never resized (capacity 2) with its
\* record behind the head of its chain: it replaced a record there.
C17_Witness ==
    /\ ret.op = "put"
    /\ am.capacity = 2
    /\ PosIn(am.allocs[BucketOf(ret.p, am.capacity) + 1], ret.p) > 1
    /\ GetAlloc(am, ret.p).size = ret.s

\* C18: gc_stop ends with a map that holds no record, after a collection
\* that has left every record reachable at its start unreleased and
\* unfinalized and has released every record that was not reachable.
C18_StopKeepsReachable ==
    [][ (pc = "swept" /\ frame.caller = "stop" /\ pc' = "stopped")
            => /\ Keys(am') = {}
               /\ \A p \in reach0 : p \notin swept
               /\ \A p \in recs0 \ reach0 : p \in swept /\ p \notin live'
      ]_vars

RECURSIVE SizeSum(_, _)
\* The sum of the size fields of the records of m with a ptr in S.
SizeSum(m, S) ==
    IF S = {} THEN 0
    ELSE LET p == CHOOSE x \in S : TRUE
         IN  RecordOf(m, p).size + SizeSum(m, S \ {p})

C20_DownsizeAtFloor ==
    [][ ( /\ ret'.op = "remove"
          /\ ~RatioBelow(am.size, am.capacity, am.downsize_factor)
          /\ RatioBelow(am'.size, am.capacity, am.downsize_factor) )
            => IF am.capacity \div 2 >= am.min_capacity
               THEN am'.capacity = next_prime(am.capacity \div 2)
               ELSE am'.capacity = am.capacity
      ]_vars

\* C21: a put or remove that resizes the map leaves every other record
\* retrievable by get with its ptr, size, tag and finalizer as they were,
\* holds no record it did not hold (but the one put), has its size changed
\* only by the record put or removed, and invokes no finalizer and releases
\* no client block.
C21_ResizeKeepsRecords ==
    [][ (ret'.op \in {"put", "remove"} /\ am'.capacity # am.capacity)
            => /\ \A k \in Keys(am) \ {ret'.p} :
                    HasAlloc(am', k) /\ GetAlloc(am', k) = RecordOf(am, k)
               /\ Keys(am') \ {ret'.p} = Keys(am) \ {ret'.p}
               /\ am'.size = Cardinality(Keys(am'))
               /\ Len(Flatten(am'.allocs, 1)) = am'.size
               /\ live' = live
               /\ ev' = ev
      ]_vars

\* A remove has downsized the map from capacity 7 to 3 and the record left
\* still carries its MARK bit.
C21_Witness ==
    /\ ret.op = "remove"
    /\ am.capacity = 3
    /\ am.size = 1
    /\ \E k \in Keys(am) : HasTag(GetAlloc(am, k).tag, GC_TAG_MARK)

\* C23: gc_sweep examines each record that was in the map when the sweep
\* started once: the record under examination has not been removed by this
\* sweep, and when gc_mark marked it (it was reachable) its MARK bit is still
\* set, no earlier step of the sweep having cleared it.
C23_ExaminedOnce ==
    pc = "sweep" =>
        /\ sw.chunk \notin swept
        /\ sw.chunk \in reach0 => HasTag(RecordOf(am, sw.chunk).tag, GC_TAG_MARK)

\* C24: when an allocate call returns without error, the pointer it returns
\* is the block the system allocator gave it, that block has a record with
\* the requested byte length and the finalizer passed, and the block is
\* unreleased.  For a call that ran the collection of gc.c:276, this is
\* stated for the collections whose stack scan found the new pointer.
C24_ReturnedIsRegistered ==
    [][ ( /\ pc' = "returned"
          /\ ret'.op = "allocate"
          /\ ret'.err = "none"
          /\ frame.caller = "alloc_limit" => frame.ptr \in reach0 )
            => LET p == IF frame.caller = "alloc_limit" THEN frame.ptr ELSE ret'.q
               IN  /\ ret'.q = p
                   /\ HasAlloc(am', p)
                   /\ GetAlloc(am', p).size = ret'.s
                   /\ GetAlloc(am', p).dtor = ret'.d
                   /\ p \in live'
      ]_vars

\* C22: gc_mark ends without a scan cut short, on self-referencing blocks
\* and cycles too: the records whose contents it scanned are the records it
\* marked, none was scanned twice, and no scan is nested more than as many
\* deep as the map has records (the depth counts the calls of gc_mark_alloc
\* that scan a record, not the innermost call that returns at its test).
C22_MarkScansOnce ==
    ret.op = "gc_mark" =>
        /\ \A k \in 1..Len(ev) : ev[k].k = "scan"
        /\ \A j, k \in 1..Len(ev) : ev[j].p = ev[k].p => j = k
        /\ \A k \in 1..Len(ev) : ev[k].depth <= Cardinality(Keys(am))
        /\ {ev[k].p : k \in 1..Len(ev)}
               = {p \in Keys(am) : HasTag(RecordOf(am, p).tag, GC_TAG_MARK)}

\* gc_mark has followed a cycle of three blocks to its end, nested as deep
\* as the map has records, and the last scan found the first block again.
C22_Witness ==
    /\ ret.op = "gc_mark"
    /\ Len(ev) = 3
    /\ ev[3].depth = 3
    /\ ev[3].found = ev[1].p
    /\ Cardinality(Keys(am)) = 3

=============================================================================
